---- MODULE Spec2Model ----
(***************************************************************************)
(* Safety core of the Red control plane: the persisted world state         *)
(* machine (app/world_state.py), the approval token service                *)
(* (app/approvals.py), the POST /v1/execute path (app/execute_api.py) and  *)
(* the executor engine (app/engines/executor_engine.py).                   *)
(***************************************************************************)
EXTENDS Integers, Sequences, FiniteSets, TLC

(***************************************************************************)
(* Bounds of the model.                                                    *)
(***************************************************************************)
MaxTime == 2
MaxEvents == 2
MaxTokens == 1
MaxRequests == 3
TtlTicks == 1

MaxAssumptions == 2

\* Entities the world store holds.
MaxEntities == 2

\* The largest timestamp (ts_ms) an upsert carries.
MaxStamp == 1

\* compute() calls of the worker threads, and upserts made while they run.
MaxComputes == 3

MaxUpserts == 2

\* Drift events handed to one call.
MaxDriftEvents == 2

(***************************************************************************)
(* app/world_state.py: WorldState, TERMINAL, ALLOWED_TRANSITIONS           *)
(***************************************************************************)
WorldState == {"DISARMED", "ARMED_IDLE", "ARMED_ACTIVE", "FROZEN", "ENDED"}

TERMINAL_NoTerminal == {}

TERMINAL == {"ENDED"}

ALLOWED_TRANSITIONS_DirectActive ==
  [s \in WorldState |->
     CASE s = "DISARMED"     -> {"ARMED_IDLE", "ARMED_ACTIVE", "FROZEN", "ENDED"}
       [] s = "ARMED_IDLE"   -> {"ARMED_ACTIVE", "DISARMED", "FROZEN", "ENDED"}
       [] s = "ARMED_ACTIVE" -> {"ARMED_IDLE", "DISARMED", "FROZEN", "ENDED"}
       [] s = "FROZEN"       -> {"DISARMED", "ENDED"}
       [] s = "ENDED"        -> {}]

ALLOWED_TRANSITIONS_FrozenToIdle ==
  [s \in WorldState |->
     CASE s = "DISARMED"     -> {"ARMED_IDLE", "FROZEN", "ENDED"}
       [] s = "ARMED_IDLE"   -> {"ARMED_ACTIVE", "DISARMED", "FROZEN", "ENDED"}
       [] s = "ARMED_ACTIVE" -> {"ARMED_IDLE", "DISARMED", "FROZEN", "ENDED"}
       [] s = "FROZEN"       -> {"DISARMED", "ARMED_IDLE", "ENDED"}
       [] s = "ENDED"        -> {}]

ALLOWED_TRANSITIONS ==
  [s \in WorldState |->
     CASE s = "DISARMED"     -> {"ARMED_IDLE", "FROZEN", "ENDED"}
       [] s = "ARMED_IDLE"   -> {"ARMED_ACTIVE", "DISARMED", "FROZEN", "ENDED"}
       [] s = "ARMED_ACTIVE" -> {"ARMED_IDLE", "DISARMED", "FROZEN", "ENDED"}
       [] s = "FROZEN"       -> {"DISARMED", "ENDED"}
       [] s = "ENDED"        -> {}]

\* Reasons are strings; the only structure the code gives them is the prefix
\* "DENIED transition <from> -> <to>: " put before the caller's reason.
PlainReason(text) == [denied |-> FALSE, from |-> "", to |-> "", text |-> text]

DeniedReason(from, to, text) == [denied |-> TRUE, from |-> from, to |-> to, text |-> text]

\* reason = (reason or "").strip() or "no reason provided"
NormReason(text) == IF text = "" THEN "no reason provided" ELSE text

\* snap.reason.startswith("DENIED transition")
StartsWithDenied(reason) == reason.denied

\* The worker threads of the server, and the inputs of the token requests.
Threads == {1, 2}

\* ActionScope. runner_id and action are strings that may hold newlines: such a
\* string is the sequence of its lines, the first a plain text and each further
\* one a whole line of text, written as Line writes it. args is a dict, kept as
\* its set of <<key, value>> items.
ActionScope(runner_id, action, args, risk, human_summary) ==
  [runner_id |-> runner_id, action |-> action, args |-> args, risk |-> risk,
   human_summary |-> human_summary]

ScopeA == ActionScope(<<"x">>, <<"run_cmd">>, {<<"k", 1>>}, "low", "run a command")

ScopeB == ActionScope(<<"x">>, <<"open_app">>, {}, "low", "open an app")

\* The scopes tokens are requested for and the macros POST /v1/execute is
\* asked to run.
Scopes == {ScopeA, ScopeB}

\* The scope lists of the approval requests (ApprovalRequest.scopes has at
\* least one item).
ScopeLists == {<<ScopeA>>, <<ScopeB>>, <<ScopeA, ScopeB>>}

\* The argument keys of the model, in sorted() order.
ArgKeys == <<"k", "m">>
TokenIds == 1..MaxTokens
\* os.urandom(18): the token with id i carries nonce i; 0 is a nonce no token has.
Nonces == 0..MaxTokens

\* _secret: the least length of APPROVAL_SIGNING_SECRET, and the lengths the
\* environment may give it: unset, one short, just long enough.
MinSecretLen == 16

SecretLens == {0, MinSecretLen - 1, MinSecretLen}

ReasonInputs == {"", "manual"}
Faults == {"none", "insert", "update"}

VARIABLES
  now,        \* the wall clock (utc_now_iso / _now), in ticks
  snap,       \* the row of world_state_current
  events,     \* the rows of world_state_events, oldest first
  lastSet,    \* the last set_state call: its arguments, the state it saw, its outcome
  afObs,      \* the snapshot an auto-freeze tripwire read and has yet to act on
  store,      \* _STORE: the issued tokens, by token_id
  pc,         \* where each worker thread stands in the request it serves
  call,       \* the request each worker thread serves
  out,        \* the last response returned, with the request it answers
  nReq,       \* requests begun
  wins,       \* per token_id, the consume_approval calls that returned ok=true
  macroLog,   \* the calls of execute_macro, in order
  receipts,   \* the receipts written by record_receipt, in order
  secretLen,  \* len(os.getenv("APPROVAL_SIGNING_SECRET", ""))
  gateIn,     \* the arguments of the last UncertaintyGate.decide call
  gate,       \* the last GateDecision of the uncertainty gate
  exec,       \* the last call of ServiceContainer.executor.execute and its outcome
  entities,   \* the "entities" dict of the world store file, in insertion order
  lastFingerprint, \* DriftDetector._last_fingerprint: <<>> for None, else <<fp>>
  worldChanged,    \* an upsert has written the store since the last compute() returned
  driftOut,   \* the last result of DriftDetector.compute, with the call it answers
  dpc,        \* where each worker thread stands in the compute() call it runs
  dcall,      \* the locals of the compute() call each worker thread runs
  nCompute,   \* compute() calls begun by worker threads
  nUpserts,   \* upsert_entity calls made while worker threads run compute()
  nChanges,   \* of these, the upserts that changed the observed rows
  nReports,   \* drift events returned by the compute() calls of worker threads
  analysis,   \* the last call of WorldEngine.analyze and its result
  verified,   \* the last call of AssumptionVerifier.verify and its outcome
  surface,    \* the last call of TrustSurfaceBuilder.build and its outcome
  gated,      \* the last POST /v1/state/activate or /deactivate and its outcome
  orch        \* the last call of OrchestratorEngine.act and its outcome

worldVars == <<snap, events, lastSet, afObs>>

Snapshot(state, reason, at, by) ==
  [state |-> state, reason |-> reason, updated_at |-> at, updated_by |-> by]

\* A row of world_state_events; the columns the model keeps are the two states.
Event(from, to) == [from_state |-> from, to_state |-> to]

NoCall == [called |-> FALSE]

NoCallYet == [op |-> "none"]

NoResponse == [op |-> "none"]

tokenVars == <<secretLen, store, pc, call, out, nReq, wins, macroLog, receipts>>

\* The governance gate's last decision and the executor's last call.
executorVars == <<gateIn, gate, exec>>

driftVars == <<entities, lastFingerprint, worldChanged, driftOut, dpc, dcall, nCompute, nUpserts,
               nChanges, nReports>>

\* The approval-gated state endpoints and the orchestrator.
guardVars == <<gated, orch>>

signalVars == <<driftVars, analysis, verified, surface, guardVars>>

\* WorldStateStore.get
Get == snap

CanExecute_ActiveOnly == <<Get.state = "ARMED_ACTIVE", Get.state>>

\* WorldStateStore.can_execute: <<ok, state>>, the state being the one the
\* returned reason names.
CanExecute == <<Get.state \in {"ARMED_IDLE", "ARMED_ACTIVE"}, Get.state>>

\* The terminal check of set_state.
TerminalNoop(cur, allow_terminal_override) ==
  cur.state \in TERMINAL /\ ~allow_terminal_override

DeniedByTable_NoSelfTransition(cur, new_state, allow_illegal_transition) ==
  /\ ~allow_illegal_transition
  /\ new_state \notin ALLOWED_TRANSITIONS[cur.state]

\* The transition-table check of set_state.
DeniedByTable(cur, new_state, allow_illegal_transition) ==
  /\ ~allow_illegal_transition
  /\ new_state \notin ALLOWED_TRANSITIONS[cur.state]
  /\ new_state # cur.state

\* The outcome of WorldStateStore.set_state in the store state it is called in.
\* fault is the statement of the transaction that fails, if any: a failing
\* INSERT is swallowed by the inner try/except, a failing UPDATE leaves tx() by
\* its rollback and is raised to the caller.
SetStateOutcome(new_state, ot, oi, fault) ==
  IF TerminalNoop(Get, ot) THEN "noop"
  ELSE IF DeniedByTable(Get, new_state, oi) THEN "denied"
  ELSE IF fault = "update" THEN "raised"
  ELSE "written"

\* The snapshot set_state returns (for "raised" nothing is returned; the
\* snapshot read at entry stands in).
SetStateReturn(new_state, text, actor, ot, oi, fault) ==
  LET cur == Get
      outcome == SetStateOutcome(new_state, ot, oi, fault)
  IN CASE outcome = "noop" -> cur
       [] outcome = "denied" ->
            Snapshot(cur.state, DeniedReason(cur.state, new_state, NormReason(text)),
                     cur.updated_at, cur.updated_by)
       [] outcome = "raised" -> cur
       [] outcome = "written" -> Snapshot(new_state, PlainReason(NormReason(text)), now, actor)

\* WorldStateStore.set_state as one atomic step: it runs under self._lock and
\* inside one BEGIN IMMEDIATE transaction.
SetState(new_state, text, actor, ot, oi, fault) ==
  LET cur == Get
      outcome == SetStateOutcome(new_state, ot, oi, fault)
  IN
  IF outcome = "written" THEN
    /\ snap' = Snapshot(new_state, PlainReason(NormReason(text)), now, actor)
    /\ events' = IF fault = "insert" THEN events
                 ELSE Append(events, Event(cur.state, new_state))
  ELSE UNCHANGED <<snap, events>>

\* Room left in the model for one more event row and one more request.
EventRoom == Len(events) < MaxEvents /\ nReq < MaxRequests

worldReqVars == <<secretLen, store, pc, call, out, wins, macroLog, receipts>>

\* WorldStateStore.set_state called directly, with every setting of its keyword
\* flags; lastSet records the call.
StoreSetState ==
  /\ EventRoom
  /\ \E new_state \in WorldState, text \in ReasonInputs, ot \in BOOLEAN, oi \in BOOLEAN,
        fault \in Faults :
       /\ SetState(new_state, text, "system", ot, oi, fault)
       /\ lastSet' = [called |-> TRUE, from |-> Get.state, to |-> new_state,
                      allow_terminal_override |-> ot, allow_illegal_transition |-> oi,
                      outcome |-> SetStateOutcome(new_state, ot, oi, fault),
                      retDenied |-> StartsWithDenied(
                         SetStateReturn(new_state, text, "system", ot, oi, fault).reason),
                      retState |-> SetStateReturn(new_state, text, "system", ot, oi, fault).state]
  /\ UNCHANGED <<now, signalVars, executorVars, afObs, worldReqVars>>
  /\ nReq' = nReq + 1

\* The module-level set_state wrapper as POST /v1/state calls it: no override
\* flag is passed.
ApiSetState ==
  /\ EventRoom
  /\ \E new_state \in WorldState, text \in ReasonInputs, fault \in Faults :
       SetState(new_state, text, "user", FALSE, FALSE, fault)
  /\ UNCHANGED <<now, signalVars, executorVars, afObs, lastSet, worldReqVars>>
  /\ nReq' = nReq + 1

\* arm / disarm / freeze wrappers.
Arm ==
  /\ EventRoom
  /\ \E fault \in Faults : SetState("ARMED_IDLE", "manual", "user", FALSE, FALSE, fault)
  /\ UNCHANGED <<now, signalVars, executorVars, afObs, lastSet, worldReqVars>>
  /\ nReq' = nReq + 1

Disarm ==
  /\ EventRoom
  /\ \E fault \in Faults : SetState("DISARMED", "manual", "user", FALSE, FALSE, fault)
  /\ UNCHANGED <<now, signalVars, executorVars, afObs, lastSet, worldReqVars>>
  /\ nReq' = nReq + 1

Freeze ==
  /\ EventRoom
  /\ \E fault \in Faults : SetState("FROZEN", "manual", "user", FALSE, FALSE, fault)
  /\ UNCHANGED <<now, signalVars, executorVars, afObs, lastSet, worldReqVars>>
  /\ nReq' = nReq + 1

\* can_execute() called on its own; seq numbers the call among the requests.
CanExecuteCall ==
  /\ nReq < MaxRequests
  /\ out' = [op |-> "can_execute", ok |-> CanExecute[1], state |-> CanExecute[2],
             seq |-> nReq + 1]
  /\ nReq' = nReq + 1
  /\ UNCHANGED <<now, signalVars, executorVars, worldVars, secretLen, store, pc, call, wins, macroLog,
                 receipts>>

\* evaluate_and_enforce / run_probes / health_pillars: snap = get_state()
AutoFreezeRead ==
  /\ afObs = "none"
  /\ nReq < MaxRequests
  /\ afObs' = Get.state
  /\ UNCHANGED <<now, signalVars, executorVars, snap, events, lastSet, worldReqVars>>
  /\ nReq' = nReq + 1

\* ... then, the tripwire having fired or not, freeze() when the snapshot read
\* earlier was armed.
AutoFreezeAct ==
  /\ afObs # "none"
  /\ Len(events) < MaxEvents
  /\ afObs' = "none"
  /\ \E tripped \in BOOLEAN, fault \in Faults :
       IF tripped /\ afObs \in {"ARMED_IDLE", "ARMED_ACTIVE"}
       THEN SetState("FROZEN", "AUTO-FREEZE", "world-engine", FALSE, FALSE, fault)
       ELSE UNCHANGED <<snap, events>>
  /\ UNCHANGED <<now, signalVars, executorVars, lastSet, tokenVars>>

Tick ==
  /\ now < MaxTime
  /\ now' = now + 1
  /\ UNCHANGED <<worldVars, tokenVars, executorVars, signalVars>>

vars == <<now, snap, events, lastSet, afObs, store, pc, call, out, nReq, wins, macroLog, receipts,
          secretLen, gateIn, gate, exec, entities, lastFingerprint, worldChanged, driftOut,
          dpc, dcall, nCompute, nUpserts, nChanges, nReports, analysis,
          verified, surface, gated, orch>>

\* _ensure_initialized on an empty database: the DISARMED row and, when the
\* events table takes it, the boot event.
InitWorld ==
  /\ snap = Snapshot("DISARMED", PlainReason("boot default"), 0, "system")
  /\ \/ events = <<Event("DISARMED", "DISARMED")>>
     \/ events = <<>>
  /\ lastSet = NoCall
  /\ afObs = "none"

\* approvals.py at import: _STORE = {}; no request is in progress.
InitTokens ==
  /\ store = <<>>
  /\ pc = [t \in Threads |-> "idle"]
  /\ call = [t \in Threads |-> NoCallYet]
  /\ out = NoResponse
  /\ nReq = 0
  /\ wins = [id \in TokenIds |-> 0]
  /\ macroLog = <<>>
  /\ receipts = <<>>

\* No gate decision has been computed and ServiceContainer.executor has not
\* been called.
NoDecision == [decided |-> FALSE]

NoExecution == [called |-> FALSE]

InitExecutor ==
  /\ gateIn = NoDecision
  /\ gate = NoDecision
  /\ exec = NoExecution

NoCompute == [called |-> FALSE]

\* A new world store file and a DriftDetector that has not run.
InitDrift ==
  /\ entities = <<>>
  /\ lastFingerprint = <<>>
  /\ worldChanged = FALSE
  /\ driftOut = NoCompute
  /\ dpc = [t \in Threads |-> "idle"]
  /\ dcall = [t \in Threads |-> NoCompute]
  /\ nCompute = 0
  /\ nUpserts = 0
  /\ nChanges = 0
  /\ nReports = 0

NoAnalysis == [called |-> FALSE]

NoVerify == [called |-> FALSE]

NoSurface == [called |-> FALSE]

InitSignals ==
  /\ InitDrift /\ analysis = NoAnalysis /\ verified = NoVerify /\ surface = NoSurface
  /\ gated = NoCall /\ orch = NoCall

\* The deployment with a signing secret of sufficient length.
InitState ==
  now = 0 /\ InitWorld /\ InitTokens /\ InitExecutor /\ InitSignals /\ secretLen = MinSecretLen

\* A deployment with any of the secrets: importing app.approvals reads no
\* environment variable, the service comes up whatever the secret is.
InitAnySecret ==
  now = 0 /\ InitWorld /\ InitTokens /\ InitExecutor /\ InitSignals /\ secretLen \in SecretLens

NextStore == StoreSetState

SpecStore == InitState /\ [][NextStore]_vars

NextState ==
  \/ ApiSetState
  \/ Arm
  \/ Disarm
  \/ Freeze
  \/ AutoFreezeRead
  \/ AutoFreezeAct
  \/ CanExecuteCall

SpecState == InitState /\ [][NextState]_vars

(***************************************************************************)
(* app/approvals.py: the approval token service; app/execute_api.py: POST  *)
(* /v1/execute. Requests run on the worker threads of the server, so the   *)
(* steps of two requests interleave wherever no lock is held: approvals.py *)
(* takes none.                                                             *)
(***************************************************************************)

\* f"{label}={value}": one line of the canonical payload.
Line(label, value) == <<label, value>>

\* repr() of an argument value.
Repr(value) == <<"repr", value>>

\* The lines f"{label}={text}" contributes once the parts are joined by "\n":
\* a text holding newlines spreads over several lines of the payload.
FieldLines(label, text) == <<Line(label, Head(text))>> \o Tail(text)

\* for k in sorted(s.args.keys()): scope[i].args.k = repr(s.args[k])
ArgLines(i, args) ==
  LET present == SelectSeq(ArgKeys, LAMBDA k : \E item \in args : item[1] = k)
  IN [j \in 1..Len(present) |->
        Line(<<i, "args", present[j]>>,
             Repr((CHOOSE item \in args : item[1] = present[j])[2]))]

\* The lines of scope i: runner_id, action, args, risk. human_summary is not
\* part of the payload.
ScopeLines(i, s) ==
  FieldLines(<<i, "runner_id">>, s.runner_id) \o FieldLines(<<i, "action">>, s.action)
    \o ArgLines(i, s.args) \o <<Line(<<i, "risk">>, s.risk)>>

RECURSIVE AllScopeLines(_, _)
AllScopeLines(scopes, i) ==
  IF i > Len(scopes) THEN <<>>
  ELSE ScopeLines(i, scopes[i]) \o AllScopeLines(scopes, i + 1)

\* _canonical_payload: the lines of the payload, in order.
CanonicalPayload(token) ==
  <<Line("token_id", token.token_id), Line("nonce", token.nonce),
    Line("issued_at", token.issued_at), Line("expires_at", token.expires_at),
    Line("proposal_id", token.proposal_id)>> \o AllScopeLines(token.scopes, 1)

\* _secret raises RuntimeError when the secret is shorter than 16 characters.
SecretRaises == secretLen < MinSecretLen

\* _sign: the HMAC-SHA256 of the canonical payload under the configured
\* secret, taken as collision free on payloads.
Sign(token) == CanonicalPayload(token)

IsExpired_IssuedAt(token) == now >= token.issued_at

IsExpired_Strict(token) == now > token.expires_at

\* _is_expired
IsExpired(token) == now >= token.expires_at

\* _STORE.get(token_id) is not None
Known(token_id) == token_id \in 1..Len(store)

\* _STORE.get(token_id), for a known token_id
Stored(token_id) == store[token_id]

StoredStatus(token_id) ==
  IF Known(token_id) THEN Stored(token_id).status ELSE "None"

\* request_approval: the token is built locally, signed, and put in _STORE by
\* one assignment; when _sign raises, nothing is stored and the exception
\* leaves the endpoint.
RequestApproval ==
  /\ Len(store) < MaxTokens
  /\ IF SecretRaises
     THEN /\ out' = [op |-> "request", ok |-> FALSE, raised |-> "RuntimeError"]
          /\ UNCHANGED store
     ELSE /\ \E scopes \in ScopeLists :
               LET id == Len(store) + 1
                   unsigned == [token_id |-> id, issued_at |-> now,
                                expires_at |-> now + TtlTicks, nonce |-> id,
                                proposal_id |-> "p", scopes |-> scopes,
                                status |-> "PENDING"]
               IN store' = Append(store, unsigned @@ [signature |-> Sign(unsigned)])
          /\ UNCHANGED out
  /\ UNCHANGED <<now, signalVars, executorVars, worldVars, secretLen, pc, call, nReq, wins, macroLog, receipts>>

\* A worker thread takes a request: the lowest idle thread serves it.
Free(t) ==
  /\ pc[t] = "idle"
  /\ \A u \in Threads : u < t => pc[u] # "idle"
  /\ nReq < MaxRequests

\* What the model notes of a request when it begins: the stored status of its
\* token, whether a consume of that token has already returned ok=true, and
\* whether the token's expires_at has passed.
Request(c) ==
  c @@ [statusAtCall |-> StoredStatus(c.token_id),
        later |-> (c.token_id \in TokenIds /\ wins[c.token_id] > 0),
        expiredAtCall |-> (Known(c.token_id) /\ now >= Stored(c.token_id).expires_at)]

Begin(t, c, at) ==
  /\ call' = [call EXCEPT ![t] = Request(c)]
  /\ pc' = [pc EXCEPT ![t] = at]
  /\ nReq' = nReq + 1

\* The response r leaves the server and the thread is idle again.
Return(t, r) ==
  /\ out' = r @@ call[t]
  /\ call' = [call EXCEPT ![t] = NoCallYet]
  /\ pc' = [pc EXCEPT ![t] = "idle"]

\* POST /approval/consume
StartConsume(t) ==
  /\ Free(t)
  /\ \E id \in TokenIds, nonce \in Nonces :
       Begin(t, [op |-> "consume", token_id |-> id, nonce |-> nonce], "c_lookup")
  /\ UNCHANGED <<now, signalVars, executorVars, worldVars, secretLen, store, out, wins, macroLog, receipts>>

\* What the caller of consume_approval does with the response: the consume
\* endpoint returns it, execute() raises 403 unless it is ok.
AfterConsume(t, r) ==
  IF call[t].op = "execute" /\ r.ok
  THEN /\ pc' = [pc EXCEPT ![t] = "x_macro"]
       /\ UNCHANGED <<out, call>>
  ELSE Return(t, r)

\* consume_approval, lines 152-157: the lookup and the nonce check.
ConsumeLookup(t) ==
  /\ pc[t] = "c_lookup"
  /\ IF ~Known(call[t].token_id)
       THEN AfterConsume(t, [ok |-> FALSE, status |-> "NOT_FOUND"])
       ELSE IF Stored(call[t].token_id).nonce # call[t].nonce
       THEN AfterConsume(t, [ok |-> FALSE, status |-> "REVOKED"])
       ELSE pc' = [pc EXCEPT ![t] = "c_expiry"] /\ UNCHANGED <<out, call>>
  /\ UNCHANGED <<now, signalVars, executorVars, worldVars, secretLen, store, nReq, wins, macroLog, receipts>>

\* consume_approval, lines 159-162: an expired token is marked EXPIRED whatever
\* its status was.
ConsumeExpiry(t) ==
  /\ pc[t] = "c_expiry"
  /\ IF IsExpired(Stored(call[t].token_id))
     THEN /\ store' = [store EXCEPT ![call[t].token_id].status = "EXPIRED"]
          /\ AfterConsume(t, [ok |-> FALSE, status |-> "EXPIRED"])
     ELSE /\ pc' = [pc EXCEPT ![t] = "c_status"]
          /\ UNCHANGED <<store, out, call>>
  /\ UNCHANGED <<now, signalVars, executorVars, worldVars, secretLen, nReq, wins, macroLog, receipts>>

\* consume_approval, lines 164-165: the read of the status.
ConsumeStatus(t) ==
  /\ pc[t] = "c_status"
  /\ LET status == Stored(call[t].token_id).status IN
       IF status # "PENDING"
       THEN AfterConsume(t, [ok |-> FALSE, status |-> status])
       ELSE pc' = [pc EXCEPT ![t] = "c_set"] /\ UNCHANGED <<out, call>>
  /\ UNCHANGED <<now, signalVars, executorVars, worldVars, secretLen, store, nReq, wins, macroLog, receipts>>

\* consume_approval, lines 167-169: the write of CONSUMED.
ConsumeSet(t) ==
  /\ pc[t] = "c_set"
  /\ store' = [store EXCEPT ![call[t].token_id].status = "CONSUMED"]
  /\ wins' = [wins EXCEPT ![call[t].token_id] = @ + 1]
  /\ AfterConsume(t, [ok |-> TRUE, status |-> "CONSUMED"])
  /\ UNCHANGED <<now, signalVars, executorVars, worldVars, secretLen, nReq, macroLog, receipts>>

\* The token a caller of verify presents: the token as request_approval
\* returned it, or that token with the named field changed and the signature
\* kept; for an unknown token_id, a token that was never issued.
VerifyVariants == {"as_issued", "nonce"}

\* Every field a caller can change, and "newline": the argument lines of the
\* first scope moved into its action text.
TamperVariants ==
  {"as_issued", "nonce", "issued_at", "expires_at", "runner_id", "action", "args", "risk",
   "human_summary", "newline"}

Tamper(token, variant) ==
  LET s == token.scopes[1] IN
  CASE variant = "as_issued" -> token
    [] variant = "nonce" -> [token EXCEPT !.nonce = 0]
    [] variant = "issued_at" -> [token EXCEPT !.issued_at = @ + 1]
    [] variant = "expires_at" -> [token EXCEPT !.expires_at = @ + 1]
    [] variant = "runner_id" -> [token EXCEPT !.scopes[1].runner_id = <<"y">>]
    [] variant = "action" -> [token EXCEPT !.scopes[1].action = <<"format_disk">>]
    [] variant = "args" -> [token EXCEPT !.scopes[1].args = {<<"k", 2>>}]
    [] variant = "risk" -> [token EXCEPT !.scopes[1].risk = "high"]
    [] variant = "human_summary" -> [token EXCEPT !.scopes[1].human_summary = "harmless"]
    [] variant = "newline" ->
         [token EXCEPT !.scopes[1].action = s.action \o ArgLines(1, s.args),
                       !.scopes[1].args = {}]

Presented(token_id, variant) ==
  IF ~Known(token_id)
  THEN [token_id |-> token_id, issued_at |-> 0, expires_at |-> TtlTicks, nonce |-> 0,
        proposal_id |-> "p", scopes |-> <<ScopeA>>, status |-> "PENDING", signature |-> <<>>]
  ELSE Tamper([Stored(token_id) EXCEPT !.status = "PENDING"], variant)

\* expected_scope: Optional[ActionScope], None being the empty sequence. The
\* third differs from ScopeA in risk only.
ExpectedScopes ==
  {<<>>, <<ScopeA>>, <<ScopeB>>,
   <<ActionScope(<<"x">>, <<"run_cmd">>, {<<"k", 1>>}, "high", "run a command")>>}

\* POST /approval/verify with a token changed in one of the given ways and one
\* of the given expected scopes.
StartVerifyWith(t, variants, expecteds) ==
  /\ Free(t)
  /\ \E id \in TokenIds, variant \in variants, expected \in expecteds :
       Begin(t, [op |-> "verify", token_id |-> id, token |-> Presented(id, variant),
                 expected_scope |-> expected], "v_lookup")
  /\ UNCHANGED <<now, signalVars, executorVars, worldVars, secretLen, store, out, wins, macroLog, receipts>>

\* POST /approval/verify among concurrent consumes.
StartVerify(t) == StartVerifyWith(t, VerifyVariants, {<<>>, <<ScopeB>>})

\* POST /approval/verify with any of the changed tokens and no expected scope.
StartVerifyTampered(t) == StartVerifyWith(t, TamperVariants, {<<>>})

\* POST /approval/verify with the issued token and any expected scope.
StartVerifyScoped(t) == StartVerifyWith(t, {"as_issued"}, ExpectedScopes)

\* verify_approval, lines 104-121: existence, signature of the presented
\* fields, equality with the issued record.
VerifyLookup(t) ==
  /\ pc[t] = "v_lookup"
  /\ LET token == call[t].token IN
       IF ~Known(token.token_id)
       THEN Return(t, [ok |-> FALSE, status |-> "INVALID", reason |-> "Unknown token_id"])
       ELSE IF SecretRaises
       THEN Return(t, [ok |-> FALSE, status |-> "INVALID",
                       reason |-> "APPROVAL_SIGNING_SECRET must be set (>=16 chars)."])
       ELSE IF Sign(token) # token.signature
       THEN Return(t, [ok |-> FALSE, status |-> "INVALID", reason |-> "Signature mismatch"])
       ELSE IF \/ token.nonce # Stored(token.token_id).nonce
               \/ token.expires_at # Stored(token.token_id).expires_at
               \/ token.issued_at # Stored(token.token_id).issued_at
       THEN Return(t, [ok |-> FALSE, status |-> "INVALID",
                       reason |-> "Token fields do not match issued record"])
       ELSE pc' = [pc EXCEPT ![t] = "v_expiry"] /\ UNCHANGED <<out, call>>
  /\ UNCHANGED <<now, signalVars, executorVars, worldVars, secretLen, store, nReq, wins, macroLog, receipts>>

\* verify_approval, lines 130-133: an expired token is marked EXPIRED whatever
\* its status was.
VerifyExpiry(t) ==
  /\ pc[t] = "v_expiry"
  /\ IF IsExpired(Stored(call[t].token_id))
     THEN /\ store' = [store EXCEPT ![call[t].token_id].status = "EXPIRED"]
          /\ Return(t, [ok |-> FALSE, status |-> "EXPIRED", reason |-> "Token expired"])
     ELSE /\ pc' = [pc EXCEPT ![t] = "v_status"]
          /\ UNCHANGED <<store, out, call>>
  /\ UNCHANGED <<now, signalVars, executorVars, worldVars, secretLen, nReq, wins, macroLog, receipts>>

\* s.runner_id, s.action and s.args equal those of the requested scope.
ScopeMatches(s, requested) ==
  /\ s.runner_id = requested.runner_id
  /\ s.action = requested.action
  /\ s.args = requested.args

\* A verify that spends the token it finds valid.
VerifyStatus_Consumes(t) ==
  /\ pc[t] = "v_status"
  /\ LET stored == Stored(call[t].token_id) IN
       IF stored.status # "PENDING"
       THEN /\ Return(t, [ok |-> FALSE, status |-> stored.status, reason |-> "Token not pending"])
            /\ UNCHANGED store
       ELSE IF /\ call[t].expected_scope # <<>>
               /\ ~\E k \in DOMAIN stored.scopes :
                     ScopeMatches(stored.scopes[k], call[t].expected_scope[1])
       THEN /\ Return(t, [ok |-> FALSE, status |-> "INVALID",
                          reason |-> "Token does not cover expected scope"])
            /\ UNCHANGED store
       ELSE /\ Return(t, [ok |-> TRUE, status |-> "PENDING", reason |-> "Token valid and pending"])
            /\ store' = [store EXCEPT ![call[t].token_id].status = "CONSUMED"]
  /\ UNCHANGED <<now, signalVars, executorVars, worldVars, secretLen, nReq, wins, macroLog, receipts>>

\* verify_approval, lines 135-149: the status, then the optional scope check.
VerifyStatus(t) ==
  /\ pc[t] = "v_status"
  /\ LET stored == Stored(call[t].token_id) IN
       IF stored.status # "PENDING"
       THEN Return(t, [ok |-> FALSE, status |-> stored.status, reason |-> "Token not pending"])
       ELSE IF /\ call[t].expected_scope # <<>>
               /\ ~\E k \in DOMAIN stored.scopes :
                     ScopeMatches(stored.scopes[k], call[t].expected_scope[1])
       THEN Return(t, [ok |-> FALSE, status |-> "INVALID",
                       reason |-> "Token does not cover expected scope"])
       ELSE Return(t, [ok |-> TRUE, status |-> "PENDING", reason |-> "Token valid and pending"])
  /\ UNCHANGED <<now, signalVars, executorVars, worldVars, secretLen, store, nReq, wins, macroLog, receipts>>

\* POST /v1/execute with consume_approval called ahead of the world state
\* gate: a rejected request has spent its token.
StartExecute_ConsumeFirst(t) ==
  /\ Free(t)
  /\ \E id \in TokenIds, nonce \in Nonces, macro \in Scopes :
       LET checked == CanExecute
           c == [op |-> "execute", token_id |-> id, nonce |-> nonce, macro |-> macro,
                 gate |-> checked[2], requested |-> checked[1]]
       IN IF checked[1]
          THEN Begin(t, c, "c_lookup") /\ UNCHANGED <<out, store>>
          ELSE /\ out' = [ok |-> FALSE, status |-> "HTTP403"] @@ Request(c)
               /\ nReq' = nReq + 1
               /\ store' = IF Known(id) /\ Stored(id).nonce = nonce
                           THEN [store EXCEPT ![id].status = "CONSUMED"]
                           ELSE store
               /\ UNCHANGED <<pc, call>>
  /\ UNCHANGED <<now, signalVars, executorVars, worldVars, secretLen, wins, macroLog, receipts>>

\* POST /v1/execute, lines 27-40: the world state gate and, behind it, the
\* execution_requested event (requested). The request carries a macro and a
\* token, of which execute() reads token_id and nonce.
StartExecute(t) ==
  /\ Free(t)
  /\ \E id \in TokenIds, nonce \in Nonces, macro \in Scopes :
       LET checked == CanExecute
           c == [op |-> "execute", token_id |-> id, nonce |-> nonce, macro |-> macro,
                 gate |-> checked[2], requested |-> checked[1]]
       IN IF checked[1]
          THEN Begin(t, c, "c_lookup") /\ UNCHANGED out
          ELSE /\ out' = [ok |-> FALSE, status |-> "HTTP403"] @@ Request(c)
               /\ nReq' = nReq + 1
               /\ UNCHANGED <<pc, call>>
  /\ UNCHANGED <<now, signalVars, executorVars, worldVars, secretLen, store, wins, macroLog, receipts>>

\* execute(), lines 61-74: execute_macro is called; it returns or raises.
ExecuteMacro(t) ==
  /\ pc[t] = "x_macro"
  /\ macroLog' = Append(macroLog, [token_id |-> call[t].token_id, macro |-> call[t].macro,
                                   gate |-> call[t].gate, state |-> Get.state])
  /\ \E raised \in BOOLEAN :
       IF raised
       THEN Return(t, [ok |-> FALSE, status |-> "HTTP500"])
       ELSE pc' = [pc EXCEPT ![t] = "x_receipt"] /\ UNCHANGED <<out, call>>
  /\ UNCHANGED <<now, signalVars, executorVars, worldVars, secretLen, store, nReq, wins, receipts>>

\* execute(), lines 87-104: record_receipt and the response.
ExecuteReceipt(t) ==
  /\ pc[t] = "x_receipt"
  /\ receipts' = Append(receipts, [token_id |-> call[t].token_id, macro |-> call[t].macro])
  /\ Return(t, [ok |-> TRUE, status |-> "HTTP200"])
  /\ UNCHANGED <<now, signalVars, executorVars, worldVars, secretLen, store, nReq, wins, macroLog>>


(***************************************************************************)
(* Uncertainty gate and executor                                           *)
(***************************************************************************)

\* Confidence scores are counted in tenths: 6 is 0.6.
MinConfidence == 6

ViolatedScoreCap == 4

Scores == 0..10

AssumptionStatus == {"valid", "violated", "unknown"}

Min_Max(a, b) == IF a <= b THEN b ELSE a

Min(a, b) == IF a <= b THEN a ELSE b

Confidence(score, rationale) == [score |-> score, rationale |-> rationale]

GateDecision(allowed, reason, confidence) ==
  [decided |-> TRUE, allowed |-> allowed, reason |-> reason, confidence |-> confidence]

\* [a for a in assumptions if a.status == VIOLATED], in list order; the keys of
\* the assumptions are their positions.
RECURSIVE ViolatedKeys(_, _)
ViolatedKeys(statuses, i) ==
  IF i > Len(statuses) THEN <<>>
  ELSE IF statuses[i] = "violated"
       THEN <<i>> \o ViolatedKeys(statuses, i + 1)
       ELSE ViolatedKeys(statuses, i + 1)

Decide_ConfidenceFirst(statuses, confidence, min_confidence) ==
  LET violated == ViolatedKeys(statuses, 1) IN
    IF confidence.score < min_confidence
    THEN GateDecision(FALSE, <<"confidence below threshold">>, confidence)
    ELSE IF violated # <<>>
    THEN GateDecision(FALSE, <<"assumptions violated: ", violated>>,
                      Confidence(Min(confidence.score, ViolatedScoreCap),
                                 "world drift violated plan assumptions"))
    ELSE GateDecision(TRUE, <<"uncertainty gate passed">>, confidence)

\* A gate that takes an assumption not yet verified for a violated one.
Decide_UnknownDenies(statuses, confidence, min_confidence) ==
  LET violated == SelectSeq([i \in DOMAIN statuses |-> i],
                            LAMBDA i : statuses[i] \in {"violated", "unknown"}) IN
    IF violated # <<>>
    THEN GateDecision(FALSE, <<"assumptions violated: ", violated>>,
                      Confidence(Min(confidence.score, ViolatedScoreCap),
                                 "world drift violated plan assumptions"))
    ELSE IF confidence.score < min_confidence
    THEN GateDecision(FALSE, <<"confidence below threshold">>, confidence)
    ELSE GateDecision(TRUE, <<"uncertainty gate passed">>, confidence)

\* UncertaintyGate.decide
Decide(statuses, confidence, min_confidence) ==
  LET violated == ViolatedKeys(statuses, 1) IN
    IF violated # <<>>
    THEN GateDecision(FALSE, <<"assumptions violated: ", violated>>,
                      Confidence(Min(confidence.score, ViolatedScoreCap),
                                 "world drift violated plan assumptions"))
    ELSE IF confidence.score < min_confidence
    THEN GateDecision(FALSE, <<"confidence below threshold">>, confidence)
    ELSE GateDecision(TRUE, <<"uncertainty gate passed">>, confidence)

\* The values of min_confidence callers pass: the default and one to each side.
MinConfidences == {MinConfidence - 1, MinConfidence, MinConfidence + 1}

\* The arguments of one decide() call, as gateIn keeps them.
GateInput(statuses, confidence, min_confidence) ==
  [decided |-> TRUE, statuses |-> statuses, confidence |-> confidence,
   min_confidence |-> min_confidence]

\* UncertaintyGate.decide called with an explicit min_confidence.
GateDecide ==
  /\ \E n \in 0..MaxAssumptions :
       \E statuses \in [1..n -> AssumptionStatus], score \in Scores,
          min_confidence \in MinConfidences :
         /\ gateIn' = GateInput(statuses, Confidence(score, "initial"), min_confidence)
         /\ gate' = Decide(statuses, Confidence(score, "initial"), min_confidence)
  /\ UNCHANGED <<now, signalVars, worldVars, tokenVars, exec>>


(***************************************************************************)
(* World store and drift detector                                          *)
(***************************************************************************)

\* Entity ids stand for strings that sort as these numbers do.
EntityIds == 1..MaxEntities

Stamps == 0..MaxStamp

\* The limit argument of compute(); 0 is taken up to 1 by list_entities.
Limits == 0..MaxEntities

\* The fields of a stored entity that list_entities and the fingerprint read.
Entity(entity_id, updated_at_ms) ==
  [entity_id |-> entity_id, updated_at_ms |-> updated_at_ms]

\* upsert_entity, lines 149-165: ents[entity_id] = merged. An existing key keeps
\* its place in the dict, a new key goes last.
UpsertInto(ents, entity_id, ts) ==
  IF \E i \in DOMAIN ents : ents[i].entity_id = entity_id
  THEN [i \in DOMAIN ents |->
          IF ents[i].entity_id = entity_id THEN Entity(entity_id, ts) ELSE ents[i]]
  ELSE Append(ents, Entity(entity_id, ts))

\* One step of ents.sort(key=updated_at_ms, reverse=True): the sort is stable,
\* so e goes behind every entity that is at least as new.
RECURSIVE InsertNewest(_, _)
InsertNewest(sorted, e) ==
  IF sorted = <<>> THEN <<e>>
  ELSE IF Head(sorted).updated_at_ms >= e.updated_at_ms
       THEN <<Head(sorted)>> \o InsertNewest(Tail(sorted), e)
       ELSE <<e>> \o sorted

RECURSIVE SortNewest(_, _)
SortNewest(ents, sorted) ==
  IF ents = <<>> THEN sorted
  ELSE SortNewest(Tail(ents), InsertNewest(sorted, Head(ents)))

AtLeastOne(limit) == IF limit < 1 THEN 1 ELSE limit

\* WorldStore.list_entities: newest first, cut to max(1, limit).
ListEntities(ents, limit) ==
  LET sorted == SortNewest(ents, <<>>)
  IN SubSeq(sorted, 1, Min(Len(sorted), AtLeastOne(limit)))

\* rows.sort(key=lambda r: (r["id"], r["u"]))
RowBefore(r, q) == r[1] < q[1] \/ (r[1] = q[1] /\ r[2] <= q[2])

RECURSIVE InsertRow(_, _)
InsertRow(sorted, r) ==
  IF sorted = <<>> THEN <<r>>
  ELSE IF RowBefore(Head(sorted), r)
       THEN <<Head(sorted)>> \o InsertRow(Tail(sorted), r)
       ELSE <<r>> \o sorted

RECURSIVE SortRows(_, _)
SortRows(rows, sorted) ==
  IF rows = <<>> THEN sorted
  ELSE SortRows(Tail(rows), InsertRow(sorted, Head(rows)))

FingerprintEntities_IdsOnly(ents) ==
  SortRows([i \in DOMAIN ents |-> <<ents[i].entity_id, 0>>], <<>>)

\* _fingerprint_entities: the digest of the sorted rows {id, u}; the model keeps
\* the sorted rows the digest is taken of.
FingerprintEntities(ents) ==
  SortRows([i \in DOMAIN ents |-> <<ents[i].entity_id, ents[i].updated_at_ms>>], <<>>)

\* DriftEvent(prev_fingerprint, fingerprint, detail).model_dump(), less ts_ms.
DriftEvent(prev, fp) ==
  [kind |-> "world_drift_fingerprint_changed", prev_fingerprint |-> prev, fingerprint |-> fp,
   detail |-> [from |-> prev, to |-> fp]]

\* DriftDetector.compute, lines 104-125, on the entities it listed: the dict it
\* returns and the baseline it leaves.
ComputeResult(ents, baseline) ==
  LET fp == FingerprintEntities(ents) IN
    IF baseline = <<>>
    THEN [ok |-> TRUE, fingerprint |-> fp, drift_events |-> <<>>, count |-> 0,
          baseline |-> <<fp>>]
    ELSE IF fp # baseline[1]
    THEN [ok |-> TRUE, fingerprint |-> fp, drift_events |-> <<DriftEvent(baseline[1], fp)>>,
          count |-> 1, baseline |-> <<fp>>]
    ELSE [ok |-> TRUE, fingerprint |-> fp, drift_events |-> <<>>, count |-> 0,
          baseline |-> baseline]

\* What a compute() call leaves of the call before it.
Previous ==
  IF driftOut.called
  THEN [prevCalled |-> TRUE, prevFingerprint |-> driftOut.fingerprint,
        prevObserved |-> driftOut.observed, prevLimit |-> driftOut.limit,
        prevReadable |-> driftOut.readable]
  ELSE [prevCalled |-> FALSE]

raceVars == <<dpc, dcall, nCompute, nUpserts, nChanges, nReports>>

\* What the world store and the drift detector leave alone.
seqVars == <<now, worldVars, tokenVars, executorVars, analysis, verified, surface, guardVars>>

\* WorldStore.upsert_entity with an entity_id and a ts_ms.
UpsertEntity ==
  /\ \E entity_id \in EntityIds, ts \in Stamps :
       entities' = UpsertInto(entities, entity_id, ts)
  /\ worldChanged' = TRUE
  /\ UNCHANGED <<seqVars, lastFingerprint, driftOut, raceVars>>

\* DriftDetector.compute, one call from its first line to its return. The store
\* file is readable or not: when it is not, _read falls back to an empty store,
\* and when list_entities raises, compute takes ents = [].
DriftCompute ==
  /\ \E limit \in Limits, readable \in BOOLEAN :
       LET ents == IF readable THEN ListEntities(entities, limit) ELSE <<>>
           r == ComputeResult(ents, lastFingerprint)
       IN /\ lastFingerprint' = r.baseline
          /\ driftOut' = [called |-> TRUE, raised |-> FALSE, limit |-> limit,
                          readable |-> readable, observed |-> ents,
                          baselineBefore |-> lastFingerprint, changedSince |-> worldChanged,
                          ok |-> r.ok, fingerprint |-> r.fingerprint,
                          drift_events |-> r.drift_events, count |-> r.count]
                         @@ Previous
  /\ worldChanged' = FALSE
  /\ UNCHANGED <<seqVars, entities, raceVars>>

NextDrift == UpsertEntity \/ DriftCompute

SpecDrift == InitState /\ [][NextDrift]_vars

\* GET /v1/world/drift is a plain def: FastAPI serves concurrent requests on
\* worker threads that share _DETECTOR, and compute() takes no lock. The steps
\* below are one compute() call of a thread, cut where it reads or writes
\* _last_fingerprint. The calls list every entity and the store is readable.

\* upsert_entity while worker threads run compute().
UpsertCounted ==
  /\ nUpserts < MaxUpserts
  /\ \E entity_id \in EntityIds, ts \in Stamps :
       LET after == UpsertInto(entities, entity_id, ts) IN
         /\ entities' = after
         /\ nChanges' = IF FingerprintEntities(after) # FingerprintEntities(entities)
                        THEN nChanges + 1 ELSE nChanges
  /\ nUpserts' = nUpserts + 1
  /\ worldChanged' = TRUE
  /\ UNCHANGED <<seqVars, lastFingerprint, driftOut, dpc, dcall, nCompute, nReports>>

\* compute(), lines 94-104: list the entities and take their fingerprint.
ComputeList(t) ==
  /\ dpc[t] = "idle"
  /\ nCompute < MaxComputes
  /\ nCompute' = nCompute + 1
  /\ dcall' = [dcall EXCEPT ![t] =
                 [called |-> TRUE,
                  fp |-> FingerprintEntities(ListEntities(entities, MaxEntities)),
                  events |-> <<>>]]
  /\ dpc' = [dpc EXCEPT ![t] = "d_first"]
  /\ worldChanged' = FALSE
  /\ UNCHANGED <<seqVars, entities, lastFingerprint, driftOut, nUpserts, nChanges, nReports>>

\* The dict compute() returns.
ComputeReturn(t, drift_events) ==
  /\ driftOut' = [called |-> TRUE, raised |-> FALSE, thread |-> t, ok |-> TRUE,
                  fingerprint |-> dcall[t].fp, drift_events |-> drift_events, count |-> Len(drift_events)]
  /\ nReports' = nReports + Len(drift_events)
  /\ dpc' = [dpc EXCEPT ![t] = "idle"]
  /\ dcall' = [dcall EXCEPT ![t] = NoCompute]

\* compute(), line 105: if self._last_fingerprint is None.
ComputeFirst(t) ==
  /\ dpc[t] = "d_first"
  /\ dpc' = [dpc EXCEPT ![t] = IF lastFingerprint = <<>> THEN "d_base" ELSE "d_compare"]
  /\ UNCHANGED <<seqVars, entities, lastFingerprint, worldChanged, driftOut, dcall, nCompute,
                 nUpserts, nChanges, nReports>>

\* compute(), lines 107-109: the first run stores the baseline and returns.
ComputeBaseline(t) ==
  /\ dpc[t] = "d_base"
  /\ lastFingerprint' = <<dcall[t].fp>>
  /\ ComputeReturn(t, <<>>)
  /\ UNCHANGED <<seqVars, entities, worldChanged, nCompute, nUpserts, nChanges>>

\* compute(), line 111, and line 125 when the fingerprints are equal.
ComputeCompare(t) ==
  /\ dpc[t] = "d_compare"
  /\ IF dcall[t].fp # lastFingerprint[1]
     THEN /\ dpc' = [dpc EXCEPT ![t] = "d_event"]
          /\ UNCHANGED <<driftOut, dcall, nReports>>
     ELSE ComputeReturn(t, <<>>)
  /\ UNCHANGED <<seqVars, entities, lastFingerprint, worldChanged, nCompute, nUpserts, nChanges>>

\* compute(), lines 112-120: the event takes the baseline as it is now.
ComputeEvent(t) ==
  /\ dpc[t] = "d_event"
  /\ dcall' = [dcall EXCEPT ![t].events = <<DriftEvent(lastFingerprint[1], dcall[t].fp)>>]
  /\ dpc' = [dpc EXCEPT ![t] = "d_set"]
  /\ UNCHANGED <<seqVars, entities, lastFingerprint, worldChanged, driftOut, nCompute, nUpserts,
                 nChanges, nReports>>

\* compute(), lines 122-125: store the new baseline and return the event.
ComputeSet(t) ==
  /\ dpc[t] = "d_set"
  /\ lastFingerprint' = <<dcall[t].fp>>
  /\ ComputeReturn(t, dcall[t].events)
  /\ UNCHANGED <<seqVars, entities, worldChanged, nCompute, nUpserts, nChanges>>

NextDriftRace ==
  \/ UpsertCounted
  \/ \E t \in Threads : ComputeList(t)
  \/ \E t \in Threads : ComputeFirst(t)
  \/ \E t \in Threads : ComputeBaseline(t)
  \/ \E t \in Threads : ComputeCompare(t)
  \/ \E t \in Threads : ComputeEvent(t)
  \/ \E t \in Threads : ComputeSet(t)

SpecDriftRace == InitState /\ [][NextDriftRace]_vars

(***************************************************************************)
(* Keyed drift: WorldEngine.analyze                                        *)
(***************************************************************************)

FactKeys == {"user_available", "network_up"}

\* Maps of fact key to value: the expected values a caller passes, and the
\* facts observed in the world.
FactMaps == UNION {[K -> BOOLEAN] : K \in SUBSET FactKeys}

\* WorldEngine.analyze(*args, **kwargs): whatever it is given, the scaffold
\* returns three empty lists.
Analyze(expected) ==
  [drift_events |-> <<>>, gate_decisions |-> <<>>, trust_surfaces |-> <<>>]

\* c.world_engine.analyze(expected=...) while the world holds the facts
\* observed. WorldEngine keeps no facts and has no method to take one.
WorldAnalyze ==
  /\ \E expected \in FactMaps, observed \in FactMaps :
       analysis' = [called |-> TRUE, expected |-> expected, observed |-> observed,
                    result |-> Analyze(expected)]
  /\ UNCHANGED <<now, worldVars, tokenVars, executorVars, driftVars, verified, surface, guardVars>>

NextAnalyze == WorldAnalyze

SpecAnalyze == InitState /\ [][NextAnalyze]_vars

(***************************************************************************)
(* Assumption verifier                                                     *)
(***************************************************************************)

\* Assumption, by the fields verify() reads and writes.
Assumption(key, status) == [key |-> key, status |-> status]

\* app.contracts.world.DriftEvent: the drift event that has a key.
KeyedDriftEvent(key) == [key |-> key]

\* The drift events a caller can hand over: events with a key, and the
\* DriftEvent of app.world.drift, the class the verifier and the trust surface
\* import, which has the fields kind, ts_ms, prev_fingerprint, fingerprint and
\* detail and no key.
DriftEvents == {KeyedDriftEvent(k) : k \in FactKeys} \cup {DriftEvent(<<>>, <<<<1, 0>>>>)}

DriftEventLists == UNION {[1..n -> DriftEvents] : n \in 0..MaxDriftEvents}

AssumptionLists ==
  UNION {[1..n -> {Assumption(k, st) : k \in FactKeys, st \in AssumptionStatus}] :
           n \in 0..MaxAssumptions}

\* d.key
HasKey(d) == "key" \in DOMAIN d

\* AssumptionVerifier.verify: line 20 reads d.key of every drift event before
\* any assumption is touched; the loop then sets every status.
Verify(assumptions, drift_events) ==
  IF \E i \in DOMAIN drift_events : ~HasKey(drift_events[i])
  THEN [raised |-> "AttributeError", assumptions |-> assumptions]
  ELSE [raised |-> "none",
        assumptions |->
          [i \in DOMAIN assumptions |->
             IF \E j \in DOMAIN drift_events : drift_events[j].key = assumptions[i].key
             THEN Assumption(assumptions[i].key, "violated")
             ELSE Assumption(assumptions[i].key, "valid")]]

\* One call of AssumptionVerifier().verify.
AssumptionVerify ==
  /\ \E assumptions \in AssumptionLists, drift_events \in DriftEventLists :
       verified' = [called |-> TRUE, before |-> assumptions, drift_events |-> drift_events]
                   @@ Verify(assumptions, drift_events)
  /\ UNCHANGED <<now, worldVars, tokenVars, executorVars, driftVars, analysis, surface, guardVars>>

NextVerifier == AssumptionVerify

SpecVerifier == InitState /\ [][NextVerifier]_vars

(***************************************************************************)
(* Governance call and executor                                            *)
(***************************************************************************)

\* Assumptions as a plan declares them: the status is the default, UNKNOWN.
DeclaredAssumptionLists ==
  UNION {[1..n -> {Assumption(k, "unknown") : k \in FactKeys}] : n \in 0..MaxAssumptions}

\* The statuses decide() reads, in list order.
Statuses(assumptions) == [i \in DOMAIN assumptions |-> assumptions[i].status]

\* apply_uncertainty_governance: verify() sets the statuses of the assumptions
\* a plan declares, then decide() takes them with its default min_confidence.
\* An exception raised by verify() leaves the caller without a decision.
ApplyUncertaintyGovernance ==
  /\ \E assumptions \in DeclaredAssumptionLists, drift_events \in DriftEventLists,
        score \in Scores :
       LET v == Verify(assumptions, drift_events) IN
         /\ IF v.raised # "none"
            THEN UNCHANGED <<gateIn, gate>>
            ELSE /\ gateIn' = GateInput(Statuses(v.assumptions), Confidence(score, "initial"),
                                        MinConfidence)
                 /\ gate' = Decide(Statuses(v.assumptions), Confidence(score, "initial"),
                                   MinConfidence)
  /\ UNCHANGED <<now, signalVars, worldVars, tokenVars, exec>>

\* How a caller passes its arguments to executor.execute: by the keywords
\* action, gate_decision, trace_id and absolute_override, or as the two
\* positional arguments of execute(self, plan, ctx).
CallStyles == {"keywords", "positional"}

\* ExecutorEngine.execute: its parameters are plan and ctx, so a call by other
\* keywords raises TypeError before the body runs; the body returns the
\* scaffold result. Neither path invokes the action it was given.
ExecutorExecute ==
  /\ gate.decided
  /\ \E style \in CallStyles, absolute_override \in BOOLEAN :
       exec' = [called |-> TRUE, style |-> style, gate_decision |-> gate,
                absolute_override |-> absolute_override, actionInvoked |-> FALSE]
               @@ (IF style = "keywords"
                   THEN [raised |-> "TypeError"]
                   ELSE [raised |-> "none", ok |-> FALSE,
                         error |-> "ExecutorEngine scaffold: not wired."])
  /\ UNCHANGED <<now, signalVars, worldVars, tokenVars, gateIn, gate>>

\* The uncertainty gate on its own.
NextGate == GateDecide \/ ApplyUncertaintyGovernance

SpecGate == InitState /\ [][NextGate]_vars

NextExecutor == ApplyUncertaintyGovernance \/ ExecutorExecute

SpecExecutor == InitState /\ [][NextExecutor]_vars

(***************************************************************************)
(* Trust surface                                                           *)
(***************************************************************************)

\* [a.key for a in assumptions if a.status == VIOLATED]
RECURSIVE ViolatedAssumptionKeys(_)
ViolatedAssumptionKeys(assumptions) ==
  IF assumptions = <<>> THEN <<>>
  ELSE IF Head(assumptions).status = "violated"
       THEN <<Head(assumptions).key>> \o ViolatedAssumptionKeys(Tail(assumptions))
       ELSE ViolatedAssumptionKeys(Tail(assumptions))

\* " | ".join(reason_parts): the parts with the separator between them. A part
\* is the tuple of the pieces its f-string puts together.
RECURSIVE Join(_)
Join(parts) ==
  IF Len(parts) <= 1 THEN parts
  ELSE <<Head(parts), <<" | ">>>> \o Join(Tail(parts))

\* An Optional argument: <<>> for None, <<x>> for x.
Given(opt) == opt # <<>>

SurfaceConfidence_BaseWhenAllowed(base_confidence, gate_decision) ==
  IF Given(gate_decision) /\ ~gate_decision[1].allowed
  THEN gate_decision[1].confidence ELSE base_confidence

\* build(), line 75: gate_decision.confidence if gate_decision else
\* base_confidence. A GateDecision is a plain dataclass and is always true.
SurfaceConfidence(base_confidence, gate_decision) ==
  IF Given(gate_decision) THEN gate_decision[1].confidence ELSE base_confidence

\* TrustSurfaceBuilder.build. Line 44 reads d.key of every drift event.
Build(base_reason, base_confidence, assumptions, drift_events, gate_decision) ==
  IF \E i \in DOMAIN drift_events : ~HasKey(drift_events[i])
  THEN [raised |-> "AttributeError"]
  ELSE
    LET violated == ViolatedAssumptionKeys(assumptions)
        drift_keys == [i \in DOMAIN drift_events |-> drift_events[i].key]
        denied == Given(gate_decision) /\ ~gate_decision[1].allowed
        reason_parts ==
          <<<<base_reason>>>>
          \o (IF violated # <<>> THEN <<<<"Assumptions violated: ", violated>>>> ELSE <<>>)
          \o (IF drift_keys # <<>> THEN <<<<"World drift detected on: ", drift_keys>>>>
              ELSE <<>>)
          \o (IF denied THEN <<<<"Blocked by governance: ", gate_decision[1].reason>>>>
              ELSE <<>>)
        what_changes ==
          (IF violated # <<>> THEN <<"Restore violated assumptions">> ELSE <<>>)
          \o (IF drift_keys # <<>> THEN <<"Update world state to match expectations">>
              ELSE <<>>)
          \o (IF denied THEN <<"Explicit human override">> ELSE <<>>)
    IN [raised |-> "none",
        reason |-> Join(reason_parts),
        confidence |-> SurfaceConfidence(base_confidence, gate_decision),
        violated_assumptions |-> violated,
        drift_keys |-> drift_keys,
        what_would_change_my_mind |-> what_changes]

BaseReasons == {"Advisory blocked"}

BaseConfidences == {Confidence(3, "base"), Confidence(8, "base")}

\* The gate decisions a caller can hand to build(): none, or a decision of
\* UncertaintyGate.decide.
GateDecisions ==
  {<<>>} \cup
  {<<Decide(statuses, Confidence(score, "initial"), MinConfidence)>> :
     statuses \in {<<>>, <<"violated">>}, score \in {MinConfidence - 1, MinConfidence + 1}}

\* One call of TrustSurfaceBuilder().build; absent lists are taken as empty.
\* build keeps no state between calls, so a behaviour makes one call.
SurfaceBuild ==
  /\ ~surface.called
  /\ \E base_reason \in BaseReasons, base_confidence \in BaseConfidences,
        assumptions \in AssumptionLists, drift_events \in DriftEventLists,
        gate_decision \in GateDecisions :
       surface' = [called |-> TRUE, base_reason |-> base_reason,
                   base_confidence |-> base_confidence, assumptions |-> assumptions,
                   drift_events |-> drift_events, gate_decision |-> gate_decision]
                  @@ Build(base_reason, base_confidence, assumptions, drift_events,
                           gate_decision)
  /\ UNCHANGED <<now, worldVars, tokenVars, executorVars, driftVars, analysis, verified, guardVars>>

NextSurface == SurfaceBuild

SpecSurface == InitState /\ [][NextSurface]_vars

(***************************************************************************)
(* World state machine: claims C8 to C12                                    *)
(***************************************************************************)

C9_EndedAbsorbing ==
  [][snap.state = "ENDED" => (snap' = snap /\ events' = events)]_vars

\* The world is ENDED while an auto-freeze tripwire that read an armed state
\* has yet to call freeze().
C9_Witness ==
  /\ snap.state = "ENDED"
  /\ afObs \in {"ARMED_IDLE", "ARMED_ACTIVE"}

\* C10: once any transition event exists, the current snapshot's state equals
\* the to_state of the most recent event.
C10_SnapshotMatchesLastEvent ==
  Len(events) > 0 => snap.state = events[Len(events)].to_state

\* C11: a permitted set_state persists the new snapshot and appends the
\* transition event as one atomic unit: no step changes the snapshot row
\* without appending its event, and an appended event is the one of the
\* snapshot written in the same step.
C11_AtomicWrite ==
  [][/\ events' = events => snap' = snap
     /\ events' # events => events' = Append(events, Event(snap.state, snap'.state))]_vars

\* C12: every successful set_state appends exactly one transition event, from
\* the previous state to the new state; a denied transition and a terminal
\* no-op leave the stored snapshot and the event log unchanged.
C12_OneEventPerTransition ==
  [][lastSet'.called =>
       /\ lastSet'.outcome = "written" =>
            /\ snap'.state = lastSet'.to
            /\ events' = Append(events, Event(lastSet'.from, lastSet'.to))
       /\ lastSet'.outcome \in {"denied", "noop"} =>
            (snap' = snap /\ events' = events)]_vars

Init == InitState

\* The token service issuing and verifying, with every changed token.
NextVerify ==
  \/ RequestApproval
  \/ \E t \in Threads : StartVerifyTampered(t)
  \/ \E t \in Threads : StartVerifyScoped(t)
  \/ \E t \in Threads : VerifyLookup(t)
  \/ \E t \in Threads : VerifyExpiry(t)
  \/ \E t \in Threads : VerifyStatus(t)
  \/ Tick

SpecVerify == InitState /\ [][NextVerify]_vars

\* Issue and verify under any configuration of the signing secret.
NextSecret ==
  \/ RequestApproval
  \/ \E t \in Threads : StartVerify(t)
  \/ \E t \in Threads : VerifyLookup(t)
  \/ \E t \in Threads : VerifyExpiry(t)
  \/ \E t \in Threads : VerifyStatus(t)

SpecSecret == InitAnySecret /\ [][NextSecret]_vars

\* The approval token service under concurrent requests and a running clock.
Next ==
  \/ RequestApproval
  \/ \E t \in Threads : StartConsume(t)
  \/ \E t \in Threads : ConsumeLookup(t)
  \/ \E t \in Threads : ConsumeExpiry(t)
  \/ \E t \in Threads : ConsumeStatus(t)
  \/ \E t \in Threads : ConsumeSet(t)
  \/ \E t \in Threads : StartVerify(t)
  \/ \E t \in Threads : VerifyLookup(t)
  \/ \E t \in Threads : VerifyExpiry(t)
  \/ \E t \in Threads : VerifyStatus(t)
  \/ Tick

Spec == Init /\ [][Next]_vars

\* POST /v1/execute under concurrent requests and world state transitions.
NextExec ==
  \/ RequestApproval
  \/ \E t \in Threads : StartExecute(t)
  \/ \E t \in Threads : ConsumeLookup(t)
  \/ \E t \in Threads : ConsumeExpiry(t)
  \/ \E t \in Threads : ConsumeStatus(t)
  \/ \E t \in Threads : ConsumeSet(t)
  \/ \E t \in Threads : ExecuteMacro(t)
  \/ \E t \in Threads : ExecuteReceipt(t)
  \/ ApiSetState
  \/ Arm
  \/ Disarm
  \/ Freeze

SpecExec == Init /\ [][NextExec]_vars

(***************************************************************************)
(* Executor: claim C1                                                      *)
(***************************************************************************)

\* C1: when GuardedExecutor.execute is called with a gate decision whose
\* allowed is false and without absolute_override, the action is never invoked
\* and the call returns executed=false with a receipt whose ok is false and
\* whose error is "Execution blocked: " followed by the gate's reason.
C1_HardStop ==
  (exec.called /\ exec.style = "keywords" /\ ~exec.gate_decision.allowed
     /\ ~exec.absolute_override) =>
    /\ ~exec.actionInvoked
    /\ exec.raised = "none"
    /\ exec.executed = FALSE
    /\ exec.receipt.ok = FALSE
    /\ exec.receipt.error = <<"Execution blocked: ", exec.gate_decision.reason>>

\* C21: when GuardedExecutor.execute is called with absolute_override set, the
\* action is invoked whatever the gate decision (allowed or not) and the call
\* returns executed=true with a receipt.
C21_AbsoluteOverride ==
  (exec.called /\ exec.style = "keywords" /\ exec.absolute_override) =>
    /\ exec.actionInvoked
    /\ exec.raised = "none"
    /\ exec.executed = TRUE

(***************************************************************************)
(* Drift detector: claims C23 to C26                                       *)
(***************************************************************************)

Rows(ents) == {<<ents[i].entity_id, ents[i].updated_at_ms>> : i \in DOMAIN ents}

\* C23: compute emits a drift event iff a baseline is stored and the new
\* fingerprint differs from it; the first call emits none and stores the
\* baseline; a call that observes other (id, update timestamp) rows than the
\* call before it returns a different fingerprint and exactly one event carrying
\* the previous and the current fingerprint; after every call the stored
\* baseline equals the returned fingerprint.
C23_DriftOnChange ==
  driftOut.called =>
    /\ driftOut.count = Len(driftOut.drift_events)
    /\ (driftOut.drift_events # <<>>) <=>
         (driftOut.baselineBefore # <<>> /\ driftOut.fingerprint # driftOut.baselineBefore[1])
    /\ ~driftOut.prevCalled =>
         (driftOut.baselineBefore = <<>> /\ driftOut.drift_events = <<>>)
    /\ (driftOut.prevCalled /\ Rows(driftOut.observed) # Rows(driftOut.prevObserved)) =>
         /\ driftOut.fingerprint # driftOut.prevFingerprint
         /\ driftOut.drift_events =
              <<DriftEvent(driftOut.prevFingerprint, driftOut.fingerprint)>>
    /\ lastFingerprint = <<driftOut.fingerprint>>

C23_Witness ==
  /\ driftOut.called
  /\ driftOut.prevCalled
  /\ driftOut.changedSince
  /\ driftOut.readable
  /\ driftOut.prevReadable
  /\ Rows(driftOut.observed) # Rows(driftOut.prevObserved)
  /\ driftOut.count = 1

\* C24: two consecutive compute() calls with no change to the world store
\* between them return the same fingerprint, and the second returns no drift
\* event (count 0), whatever the limit argument of either call.
C24_DriftIdempotent ==
  (driftOut.called /\ driftOut.prevCalled /\ ~driftOut.changedSince) =>
    /\ driftOut.fingerprint = driftOut.prevFingerprint
    /\ driftOut.drift_events = <<>>
    /\ driftOut.count = 0

\* C25: compute never raises, and a call that could not read the world store
\* returns a safe empty result: no drift event is reported because of the
\* failure.
C25_SafeOnFailure ==
  driftOut.called =>
    /\ ~driftOut.raised
    /\ ~driftOut.readable => (driftOut.drift_events = <<>> /\ driftOut.count = 0)

\* C26: writers of the drift baseline do not race: however concurrent
\* compute() calls on the shared detector interleave, a world change is
\* reported by one call only, and once every call has returned, the last of
\* them having listed the store after its last change, the stored baseline is
\* the fingerprint of the store.
C26_BaselineAtomic ==
  /\ nReports <= nChanges
  /\ (nCompute > 0 /\ ~worldChanged /\ \A t \in Threads : dpc[t] = "idle") =>
       lastFingerprint = <<FingerprintEntities(ListEntities(entities, MaxEntities))>>

(***************************************************************************)
(* Keyed drift: claim C27                                                  *)
(***************************************************************************)

\* The drift events of the last analysis that are about key k.
EventsOn(k) ==
  {i \in DOMAIN analysis.result.drift_events : analysis.result.drift_events[i].key = k}

\* C27: analysing a map of expected key -> value against the observed facts
\* yields one drift event for every expected key whose fact is missing, one for
\* every expected key whose observed value differs, and none for a key whose
\* observed value equals the expected one.
C27_KeyedDrift ==
  analysis.called =>
    \A k \in DOMAIN analysis.expected :
      Cardinality(EventsOn(k)) =
        IF k \notin DOMAIN analysis.observed \/ analysis.observed[k] # analysis.expected[k]
        THEN 1 ELSE 0

(***************************************************************************)
(* Assumption verifier: claim C28                                          *)
(***************************************************************************)

\* The keys the drift events of the last verify() call carry.
DriftKeys ==
  {verified.drift_events[j].key :
     j \in {i \in DOMAIN verified.drift_events : HasKey(verified.drift_events[i])}}

\* C28: verify, for every list of assumptions and drift events, returns and
\* leaves each assumption VIOLATED iff its key is the key of some drift event
\* and VALID otherwise: none is UNKNOWN afterwards, and an assumption that was
\* VIOLATED is VALID again when no drift event has its key.
C28_VerifyStatuses ==
  verified.called =>
    /\ verified.raised = "none"
    /\ DOMAIN verified.assumptions = DOMAIN verified.before
    /\ \A i \in DOMAIN verified.assumptions :
         /\ verified.assumptions[i].key = verified.before[i].key
         /\ verified.assumptions[i].status =
              IF verified.before[i].key \in DriftKeys THEN "violated" ELSE "valid"

(***************************************************************************)
(* Trust surface: claims C29 and C30                                       *)
(***************************************************************************)

SomeViolated == \E i \in DOMAIN surface.assumptions : surface.assumptions[i].status = "violated"

SomeDrift == surface.drift_events # <<>>

GateDenies == surface.gate_decision # <<>> /\ ~surface.gate_decision[1].allowed

\* C29: build returns a surface whose reason is base_reason followed, in this
\* order and joined by " | ", by "Assumptions violated: [...]" iff some
\* assumption is VIOLATED, "World drift detected on: [...]" iff a drift event
\* is given, and "Blocked by governance: <gate.reason>" iff a gate decision is
\* given and denies; what_would_change_my_mind holds, in the same order and
\* under the same conditions, "Restore violated assumptions", "Update world
\* state to match expectations" and "Explicit human override".
C29_ReasonParts ==
  surface.called =>
    /\ surface.raised = "none"
    /\ LET tail3 == IF GateDenies
                    THEN <<<<" | ">>, <<"Blocked by governance: ",
                                        surface.gate_decision[1].reason>>>>
                    ELSE <<>>
           tail2 == IF SomeDrift
                    THEN <<<<" | ">>, <<"World drift detected on: ", surface.drift_keys>>>>
                    ELSE <<>>
           tail1 == IF SomeViolated
                    THEN <<<<" | ">>, <<"Assumptions violated: ",
                                        surface.violated_assumptions>>>>
                    ELSE <<>>
       IN surface.reason = <<<<surface.base_reason>>>> \o tail1 \o tail2 \o tail3
    /\ surface.what_would_change_my_mind =
         (IF SomeViolated THEN <<"Restore violated assumptions">> ELSE <<>>)
         \o (IF SomeDrift THEN <<"Update world state to match expectations">> ELSE <<>>)
         \o (IF GateDenies THEN <<"Explicit human override">> ELSE <<>>)

\* C30: the confidence of the ReasonSurface that build returns is the gate
\* decision's confidence whenever a gate decision is supplied, allowing or
\* denying, clamped or not, and the base confidence only when none is supplied.
C30_GateConfidenceWins ==
  (surface.called /\ surface.raised = "none") =>
    surface.confidence =
      IF surface.gate_decision # <<>>
      THEN surface.gate_decision[1].confidence
      ELSE surface.base_confidence

C30_Witness ==
  /\ surface.called
  /\ surface.raised = "none"
  /\ surface.gate_decision # <<>>
  /\ surface.gate_decision[1].allowed
  /\ surface.gate_decision[1].confidence # surface.base_confidence
  /\ surface.confidence = surface.gate_decision[1].confidence

(***************************************************************************)
(* Approval tokens and POST /v1/execute: claims C2 to C7                   *)
(***************************************************************************)

\* C2: of the consume_approval calls made on one token, concurrent ones
\* included, exactly one returns ok=true: no token is consumed with ok=true
\* twice.
C2_ExactlyOneWins ==
  \A id \in TokenIds : wins[id] <= 1

\* C3: for any approval token id, execute_macro is invoked at most once over
\* all POST /v1/execute requests, concurrent ones included.
C3_MacroAtMostOnce ==
  \A i, j \in DOMAIN macroLog :
    i # j => macroLog[i].token_id # macroLog[j].token_id

\* C22: every execution attempt yields exactly one receipt: each request that
\* reached execute_macro has either recorded its receipt or is about to, whether
\* the macro returned or raised.
C22_OneReceiptPerAttempt ==
  Len(receipts) + Cardinality({t \in Threads : pc[t] = "x_receipt"}) = Len(macroLog)

\* C4: tokens are single-use: a consume of a pending token that answers before
\* the expiry can only fail because another consume has won, and every consume
\* that begins after a successful one, with the token's own nonce, returns
\* ok=false and reports the status the token had in the store when the call
\* began.
C4_SingleUse ==
  (out.op = "consume" /\ Known(out.token_id) /\ out.nonce = Stored(out.token_id).nonce) =>
    /\ (out.statusAtCall = "PENDING" /\ ~IsExpired(Stored(out.token_id)))
         => (out.ok \/ wins[out.token_id] > 0)
    /\ out.later => (~out.ok /\ out.status = out.statusAtCall)

\* C5: in any interleaving of issue, verify and consume calls with clock
\* advance, a stored token's status only moves from PENDING to CONSUMED or from
\* PENDING to EXPIRED: a CONSUMED token never becomes EXPIRED.
C5_StatusMonotone ==
  [][\A id \in 1..Len(store) :
       store'[id].status # store[id].status =>
         (store[id].status = "PENDING" /\ store'[id].status \in {"CONSUMED", "EXPIRED"})]_vars

\* C6: POST /v1/execute invokes execute_macro only when the world state its
\* gate checked is ARMED_ACTIVE.
C6_OnlyArmedActive ==
  \A i \in DOMAIN macroLog : macroLog[i].gate = "ARMED_ACTIVE"

\* C7: POST /v1/execute invokes execute_macro only if the stored token has a
\* scope that matches the requested macro.
C7_ScopeCovers ==
  \A i \in DOMAIN macroLog :
    \E k \in DOMAIN Stored(macroLog[i].token_id).scopes :
      ScopeMatches(Stored(macroLog[i].token_id).scopes[k], macroLog[i].macro)

(***************************************************************************)
(* Uncertainty gate: claims C13, C14                                       *)
(***************************************************************************)

\* The positions of the violated assumptions of the last decide() call.
ViolatedIn == {i \in DOMAIN gateIn.statuses : gateIn.statuses[i] = "violated"}

\* C13: decide denies with a reason listing the violated keys whenever an
\* assumption is violated, whatever the confidence; else it denies with
\* "confidence below threshold" when score < min_confidence; else, score ==
\* min_confidence included, it allows with "uncertainty gate passed".
C13_DecideReason ==
  gateIn.decided =>
    IF ViolatedIn # {}
    THEN /\ ~gate.allowed
         /\ Len(gate.reason) = 2
         /\ gate.reason[1] = "assumptions violated: "
         /\ Len(gate.reason[2]) = Cardinality(ViolatedIn)
         /\ \A k \in DOMAIN gate.reason[2] : gate.reason[2][k] \in ViolatedIn
         /\ \A k, l \in DOMAIN gate.reason[2] : k < l => gate.reason[2][k] < gate.reason[2][l]
    ELSE IF gateIn.confidence.score < gateIn.min_confidence
    THEN ~gate.allowed /\ gate.reason = <<"confidence below threshold">>
    ELSE gate.allowed /\ gate.reason = <<"uncertainty gate passed">>

\* The tie-break: an assumption is violated and the score is below the
\* threshold, and the decision names the violation.
C13_Witness ==
  /\ gateIn.decided
  /\ ViolatedIn # {}
  /\ gateIn.confidence.score < gateIn.min_confidence
  /\ ~gate.allowed
  /\ gate.reason[1] = "assumptions violated: "

\* C14: the returned confidence is min(input score, 0.4) with rationale "world
\* drift violated plan assumptions" when an assumption is violated, never above
\* 0.4 and never above the input; it is the input confidence unchanged for a
\* low-confidence denial and for an allow.
C14_DecideConfidence ==
  gateIn.decided =>
    IF ViolatedIn # {}
    THEN /\ gate.confidence.score <= ViolatedScoreCap
         /\ gate.confidence.score <= gateIn.confidence.score
         /\ gate.confidence.score \in {ViolatedScoreCap, gateIn.confidence.score}
         /\ gate.confidence.rationale = "world drift violated plan assumptions"
    ELSE gate.confidence = gateIn.confidence

\* A violated assumption with an input score above the cap: the clamp acts.
C14_Witness ==
  /\ gateIn.decided
  /\ ViolatedIn # {}
  /\ gateIn.confidence.score > ViolatedScoreCap
  /\ gate.confidence.score = ViolatedScoreCap

(***************************************************************************)
(* Approval tokens: claims C15 to C19                                      *)
(***************************************************************************)

\* The last response answers a verify of the token as it was issued.
VerifiedAsIssued ==
  /\ out.op = "verify"
  /\ Known(out.token_id)
  /\ [out.token EXCEPT !.status = Stored(out.token_id).status] = Stored(out.token_id)

\* C15: the token returned by request_approval, presented unmodified to
\* verify_approval before its expires_at and with no consume of it, yields
\* ok=true, status=PENDING.
C15_RoundTrip ==
  (/\ VerifiedAsIssued
   /\ out.expected_scope = <<>>
   /\ now < Stored(out.token_id).expires_at
   /\ wins[out.token_id] = 0)
    => (out.ok /\ out.status = "PENDING")

\* A verify of an issued token that answered ok before the expiry.
C15_Witness ==
  /\ VerifiedAsIssued
  /\ out.expected_scope = <<>>
  /\ now < Stored(out.token_id).expires_at
  /\ out.ok

\* The last response answers a verify of an issued token with its scopes, nonce,
\* issued_at or expires_at changed and its signature kept.
VerifiedTampered ==
  /\ out.op = "verify"
  /\ Known(out.token_id)
  /\ out.token.signature = Stored(out.token_id).signature
  /\ \/ out.token.scopes # Stored(out.token_id).scopes
     \/ out.token.nonce # Stored(out.token_id).nonce
     \/ out.token.issued_at # Stored(out.token_id).issued_at
     \/ out.token.expires_at # Stored(out.token_id).expires_at

\* C16: changing any part of an issued token's scopes (runner_id, action, args,
\* risk, human_summary), its nonce, its issued_at or its expires_at while
\* keeping the signature makes verify_approval fail with a signature mismatch,
\* never ok=true.
C16_TamperDetected ==
  VerifiedTampered => (~out.ok /\ out.reason = "Signature mismatch")

\* C17: a verify or a consume of an issued token that begins when its
\* expires_at has passed returns ok=false, status EXPIRED (not NOT_FOUND) and
\* leaves the stored status EXPIRED; no token record is ever removed.
C17_ExpiredReported ==
  [][/\ Len(store') >= Len(store)
     /\ \A t \in Threads :
          (/\ pc[t] # "idle" /\ pc'[t] = "idle"
           /\ out'.op \in {"verify", "consume"}
           /\ out'.expiredAtCall
           /\ out'.op = "consume" => out'.nonce = store[out'.token_id].nonce
           /\ out'.op = "verify" =>
                [out'.token EXCEPT !.status = "PENDING"]
                  = [store[out'.token_id] EXCEPT !.status = "PENDING"])
            => (/\ ~out'.ok
                /\ out'.status = "EXPIRED"
                /\ store'[out'.token_id].status = "EXPIRED")]_vars

\* A consume begun after the expiry has answered EXPIRED.
C17_Witness ==
  /\ out.op = "consume"
  /\ out.expiredAtCall
  /\ out.status = "EXPIRED"
  /\ StoredStatus(out.token_id) = "EXPIRED"

\* C18: with an expected_scope, verify_approval returns ok=true only if that
\* scope exactly matches one of the stored token's scopes, every field and risk
\* included; with no expected_scope a pending, unexpired, untampered token
\* verifies ok=true.
C18_ExactScope ==
  VerifiedAsIssued =>
    /\ (out.expected_scope # <<>> /\ out.ok) =>
         \E k \in DOMAIN Stored(out.token_id).scopes :
           Stored(out.token_id).scopes[k] = out.expected_scope[1]
    /\ (out.expected_scope = <<>> /\ now < Stored(out.token_id).expires_at) => out.ok

\* C19: with a signing secret absent or shorter than 16 characters the service
\* fails when it is constructed, not at request time: no request_approval is
\* answered by the secret's error, no token is stored and no verify returns
\* ok=true.
C19_FailClosedSecret ==
  secretLen < MinSecretLen =>
    /\ out.op # "request"
    /\ store = <<>>
    /\ ~(out.op = "verify" /\ out.ok)

(***************************************************************************)
(* app/state_api.py: the approval-gated transitions POST /v1/state/activate *)
(* and POST /v1/state/deactivate                                           *)
(***************************************************************************)

\* The actions the two endpoints require of a scope.
StateActions == {<<"state:activate">>, <<"state:deactivate">>}

\* The scope lists approval is requested for when a state transition is to be
\* approved.
StateScopeLists ==
  {<<ActionScope(<<"x">>, a, {}, "low", "change the state")>> : a \in StateActions}

\* request_approval for a state transition.
RequestStateApproval ==
  /\ Len(store) < MaxTokens
  /\ ~SecretRaises
  /\ \E scopes \in StateScopeLists :
       LET id == Len(store) + 1
           unsigned == [token_id |-> id, issued_at |-> now, expires_at |-> now + TtlTicks,
                        nonce |-> id, proposal_id |-> "p", scopes |-> scopes,
                        status |-> "PENDING"]
       IN store' = Append(store, unsigned @@ [signature |-> Sign(unsigned)])
  /\ UNCHANGED <<now, signalVars, executorVars, worldVars, secretLen, pc, call, out, nReq, wins,
                 macroLog, receipts>>

\* A token the caller made up: token_id 0 is the id of no issued token, the
\* signature is not an HMAC under the secret, and the one scope is a dict with
\* the required text under the key "action" or the key "scope".
ForgedToken(key, required_action, issued_at, expires_at) ==
  [token_id |-> 0, issued_at |-> issued_at, expires_at |-> expires_at, nonce |-> 0,
   proposal_id |-> "p", status |-> "PENDING", signature |-> <<>>,
   scopes |-> <<IF key = "action" THEN [action |-> required_action]
                ELSE [scope |-> required_action]>>]

\* The request bodies' approval_token: a copy of a token /approval/request
\* returned, or a made-up one.
StateTokens ==
  {Stored(id) : id \in 1..Len(store)}
    \cup {ForgedToken(key, a, iss, exp) :
            key \in {"action", "scope"}, a \in StateActions,
            iss \in {now, now + 1}, exp \in {now, now + 1}}

\* _require_token_fresh: TRUE when no HTTPException is raised. One tick is more
\* than the 5000 ms of slack.
RequireTokenFresh(token) ==
  /\ ~(token.expires_at <= now)
  /\ ~(token.issued_at > now)

\* s.get(k): <<>> for None.
ScopeGet(s, k) == IF k \in DOMAIN s THEN s[k] ELSE <<>>

\* _require_action_scope: TRUE when no HTTPException is raised.
RequireActionScope(token, required_action) ==
  \E i \in 1..Len(token.scopes) :
    \/ ScopeGet(token.scopes[i], "action") = required_action
    \/ ScopeGet(token.scopes[i], "scope") = required_action

\* The presented token is the copy of a stored token that is PENDING, not
\* expired and carries the signature of its content.
Authentic(token) ==
  /\ Known(token.token_id)
  /\ Stored(token.token_id).status = "PENDING"
  /\ ~IsExpired(Stored(token.token_id))
  /\ [token EXCEPT !.status = "PENDING"] = [Stored(token.token_id) EXCEPT !.status = "PENDING"]
  /\ token.signature = Sign(token)

\* api_activate / api_deactivate: the two checks of the presented token, then
\* set_state without override flags, then 403 on a DENIED reason.
ApiGated(op, required_action, new_state) ==
  /\ EventRoom
  /\ \E token \in StateTokens, fault \in Faults :
       LET passed == RequireTokenFresh(token) /\ RequireActionScope(token, required_action)
           outcome == SetStateOutcome(new_state, FALSE, FALSE, fault)
           ret == SetStateReturn(new_state, op, "user", FALSE, FALSE, fault)
       IN /\ IF passed
             THEN SetState(new_state, op, "user", FALSE, FALSE, fault)
             ELSE UNCHANGED <<snap, events>>
          /\ gated' = [called |-> TRUE, op |-> op, token |-> token,
                       authentic |-> Authentic(token), from |-> Get.state,
                       status |-> IF ~passed THEN "HTTP403"
                                  ELSE IF outcome = "raised" THEN "HTTP500"
                                  ELSE IF StartsWithDenied(ret.reason) THEN "HTTP403"
                                  ELSE "OK"]
  /\ nReq' = nReq + 1
  /\ UNCHANGED <<now, driftVars, analysis, verified, surface, orch, executorVars, afObs, lastSet,
                 worldReqVars>>

ApiActivate == ApiGated("activate", <<"state:activate">>, "ARMED_ACTIVE")

ApiDeactivate == ApiGated("deactivate", <<"state:deactivate">>, "ARMED_IDLE")

NextActivate ==
  \/ RequestStateApproval
  \/ Arm
  \/ ApiActivate
  \/ ApiDeactivate
  \/ Tick

SpecActivate == InitState /\ [][NextActivate]_vars

\* C33: POST /v1/state/activate and POST /v1/state/deactivate change the world
\* state only if the presented token is the copy of an issued token that is
\* pending, unexpired and correctly signed in the store: a step of either
\* endpoint that changes the stored state is made with such a token.
C33_StateChangeNeedsIssuedToken ==
  [][(gated' # gated /\ snap'.state # snap.state) => gated'.authentic]_vars

(***************************************************************************)
(* app/engines/orchestrator_engine.py: OrchestratorEngine.act              *)
(***************************************************************************)

\* isinstance(st, dict) for st = get_state(): get_state returns a
\* WorldStateSnapshot, a frozen dataclass.
SnapshotIsDict == FALSE

\* from app.world_state import STATE: the module defines no such name, the
\* ImportError is swallowed.
ModuleHasSTATE == FALSE

\* _get_state_string
GetStateString ==
  IF SnapshotIsDict THEN Get.state
  ELSE IF ModuleHasSTATE THEN Get.state
  ELSE "UNKNOWN"

\* act, from the output of reason() on: pre_ok is verification_pre.ok, enabled
\* is executor.enabled, approval_token is <<>> for None. The result holds ok,
\* debug["blocked"] ("none" when the key is not set), debug["state"] and
\* whether executor.execute was called.
Act(pre_ok, execute, enabled, approval_token) ==
  LET state == GetStateString IN
  IF ~execute
  THEN [ok |-> pre_ok, blocked |-> "none", state |-> "none", executorCalled |-> FALSE]
  ELSE IF state # "ARMED_ACTIVE"
  THEN [ok |-> FALSE, blocked |-> "state_not_active", state |-> state, executorCalled |-> FALSE]
  ELSE IF ~enabled
  THEN [ok |-> FALSE, blocked |-> "executor_disabled", state |-> "none", executorCalled |-> FALSE]
  ELSE IF approval_token = <<>>
  THEN [ok |-> FALSE, blocked |-> "missing_approval", state |-> "none", executorCalled |-> FALSE]
  ELSE [ok |-> FALSE, blocked |-> "none", state |-> "none", executorCalled |-> TRUE]

\* POST /v1/act
OrchestratorAct ==
  /\ nReq < MaxRequests
  /\ \E pre_ok \in BOOLEAN, execute \in BOOLEAN, enabled \in BOOLEAN,
        approval_token \in {<<>>, <<1>>} :
       orch' = [called |-> TRUE, execute |-> execute, enabled |-> enabled,
                token_given |-> approval_token # <<>>, world |-> Get.state]
               @@ Act(pre_ok, execute, enabled, approval_token)
  /\ nReq' = nReq + 1
  /\ UNCHANGED <<now, driftVars, analysis, verified, surface, gated, executorVars, worldVars,
                 worldReqVars>>

NextOrchestrator ==
  \/ Arm
  \/ ApiActivate
  \/ OrchestratorAct

SpecOrchestrator == InitState /\ [][NextOrchestrator]_vars

\* C34: act(execute=true) calls executor.execute only when the world state is
\* ARMED_ACTIVE, the executor is enabled and an approval token is given; the
\* first of these checks that fails, in this order, returns ok=false with
\* debug.blocked = state_not_active, executor_disabled or missing_approval and
\* no executor call; act(execute=false) never calls the executor.
C34_ActGate ==
  orch.called =>
    /\ orch.executorCalled =>
         (orch.execute /\ orch.world = "ARMED_ACTIVE" /\ orch.enabled /\ orch.token_given)
    /\ ~orch.execute => ~orch.executorCalled
    /\ orch.execute =>
         IF orch.world # "ARMED_ACTIVE"
         THEN ~orch.ok /\ orch.blocked = "state_not_active" /\ ~orch.executorCalled
         ELSE IF ~orch.enabled
         THEN ~orch.ok /\ orch.blocked = "executor_disabled" /\ ~orch.executorCalled
         ELSE IF ~orch.token_given
         THEN ~orch.ok /\ orch.blocked = "missing_approval" /\ ~orch.executorCalled
         ELSE TRUE

(***************************************************************************)
(* World state paths: claims C31 and C32                                   *)
(***************************************************************************)

\* The last set_state call passed no override flag.
NoOverride(c) == c.called /\ ~c.allow_terminal_override /\ ~c.allow_illegal_transition

\* C31: in DISARMED, the state a new store starts in, a direct
\* set_state(ARMED_ACTIVE) is denied; in ARMED_IDLE, set_state(ARMED_ACTIVE)
\* succeeds; and whenever a set_state without override flags takes the world
\* into ARMED_ACTIVE from another state, that state is ARMED_IDLE.
C31_ActiveOnlyFromIdle ==
  /\ [](NoOverride(lastSet) /\ lastSet.to = "ARMED_ACTIVE" /\ lastSet.outcome # "raised" =>
          /\ lastSet.from = "DISARMED" =>
               (lastSet.outcome = "denied" /\ lastSet.retDenied /\ snap.state = "DISARMED")
          /\ lastSet.from = "ARMED_IDLE" =>
               (lastSet.outcome = "written" /\ ~lastSet.retDenied
                  /\ snap.state = "ARMED_ACTIVE"))
  /\ [][(NoOverride(lastSet') /\ snap'.state = "ARMED_ACTIVE" /\ snap.state # "ARMED_ACTIVE")
          => snap.state = "ARMED_IDLE"]_vars

\* DISARMED, then ARMED_IDLE, then ARMED_ACTIVE, the last step without override.
C31_Witness ==
  /\ NoOverride(lastSet)
  /\ lastSet.from = "ARMED_IDLE"
  /\ lastSet.to = "ARMED_ACTIVE"
  /\ lastSet.outcome = "written"
  /\ snap.state = "ARMED_ACTIVE"

Armed == {"ARMED_IDLE", "ARMED_ACTIVE"}

\* C32: FROZEN is a hard stop: a step made without override flags takes a
\* FROZEN world to DISARMED or ENDED or leaves it FROZEN, and an armed state is
\* entered from outside the armed states only from DISARMED, so the world
\* passes through DISARMED between being FROZEN and next being armed;
\* can_execute() is false while the world is FROZEN.
C32_FrozenHardStop ==
  /\ [][snap.state = "FROZEN" => snap'.state \in {"FROZEN", "DISARMED", "ENDED"}]_vars
  /\ [][(snap'.state \in Armed /\ snap.state \notin Armed) => snap.state = "DISARMED"]_vars
  /\ [](snap.state = "FROZEN" => ~CanExecute[1])
  /\ []((out.op = "can_execute" /\ out.state = "FROZEN") => ~out.ok)

\* The world has left FROZEN for DISARMED.
C32_Witness ==
  /\ snap.state = "DISARMED"
  /\ Len(events) > 0
  /\ events[Len(events)] = Event("FROZEN", "DISARMED")

(***************************************************************************)
(* POST /v1/execute and the auto-freeze tripwires under interleaving:      *)
(* claims C35 to C38                                                       *)
(***************************************************************************)

\* C35: under any interleaving of POST /v1/execute with world state
\* transitions, execute_macro is never invoked at a moment when the stored
\* world state does not permit execution.
C35_NoActionWhenNotPermitted ==
  \A i \in DOMAIN macroLog : macroLog[i].state \in Armed

\* C36: a tripwire's freeze changes the world only when it is ARMED_IDLE or
\* ARMED_ACTIVE at the moment of the transition: never a DISARMED, an ENDED or
\* an already FROZEN world.
C36_FreezeOnlyArmed ==
  [][(afObs # "none" /\ afObs' = "none" /\ snap' # snap) => snap.state \in Armed]_vars

\* C37: a POST /v1/execute rejected by the world state check answers 403
\* before any execution event, leaves the token store as it is and invokes no
\* action and writes no receipt.
C37_RejectedKeepsToken ==
  [][(out' # out /\ out'.op = "execute" /\ out'.gate \notin Armed) =>
        /\ out'.status = "HTTP403" /\ ~out'.requested
        /\ store' = store /\ wins' = wins
        /\ macroLog' = macroLog /\ receipts' = receipts]_vars

\* A request for a known, pending token with its own nonce was rejected by the
\* world state check; the token is still PENDING.
C37_Witness ==
  /\ out.op = "execute" /\ out.status = "HTTP403" /\ out.gate \notin Armed
  /\ Known(out.token_id) /\ out.nonce = Stored(out.token_id).nonce
  /\ out.statusAtCall = "PENDING" /\ Stored(out.token_id).status = "PENDING"

\* POST /v1/execute with the clock running.
NextRetry == NextExec \/ Tick

SpecRetry == Init /\ [][NextRetry]_vars

\* C38: execute_macro runs only after a consume of the token returned ok;
\* a CONSUMED token stays CONSUMED; a request whose macro raised writes no
\* receipt; and a request begun after the token was consumed never reaches
\* execute_macro.
C38_ConsumedBeforeAction ==
  /\ [][Len(macroLog') > Len(macroLog) => wins[macroLog'[Len(macroLog')].token_id] > 0]_vars
  /\ [][\A id \in 1..Len(store) :
          store[id].status = "CONSUMED" => store'[id].status = "CONSUMED"]_vars
  /\ [][(out' # out /\ out'.op = "execute" /\ out'.status = "HTTP500") =>
          receipts' = receipts]_vars
  /\ [](\A t \in Threads :
          (call[t].op = "execute" /\ call[t].later) => pc[t] \notin {"x_macro", "x_receipt"})

(***************************************************************************)
(* Approval tokens: claim C39                                              *)
(***************************************************************************)

\* C39: verify_approval never consumes a token: a step of a verify call
\* leaves the token store as it is or sets the status of its token, expired at
\* that moment, to EXPIRED; so a consume with the token's own nonce of a token
\* that was PENDING when it began and is unexpired when it answers fails only
\* when another consume has won.
C39_VerifyNeverConsumes ==
  /\ [][\A t \in Threads :
          (call[t].op = "verify" /\ pc'[t] # pc[t]) =>
            \/ store' = store
            \/ /\ IsExpired(Stored(call[t].token_id))
               /\ store' = [store EXCEPT ![call[t].token_id].status = "EXPIRED"]]_vars
  /\ []((/\ out.op = "consume"
         /\ Known(out.token_id)
         /\ out.nonce = Stored(out.token_id).nonce
         /\ out.statusAtCall = "PENDING"
         /\ ~IsExpired(Stored(out.token_id)))
          => (out.ok \/ wins[out.token_id] > 0))

\* A verify of a pending, unexpired token has answered ok and the stored token
\* is PENDING still.
C39_Witness ==
  /\ out.op = "verify" /\ out.ok
  /\ Stored(out.token_id).status = "PENDING"
  /\ ~IsExpired(Stored(out.token_id))

(***************************************************************************)
(* Uncertainty gate: claim C40                                             *)
(***************************************************************************)

\* C40: only violated assumptions make the gate deny for its assumptions: a
\* denial that names assumptions comes with a violated one, and a call whose
\* assumptions are all unknown, or that has none, with a score of at least
\* min_confidence is allowed.
C40_UnknownPasses ==
  gateIn.decided =>
    /\ (~gate.allowed /\ gate.reason[1] = "assumptions violated: ") => ViolatedIn # {}
    /\ ((\A i \in DOMAIN gateIn.statuses : gateIn.statuses[i] = "unknown")
          /\ gateIn.confidence.score >= gateIn.min_confidence) => gate.allowed

\* A call with assumptions, all of them unknown, was allowed.
C40_Witness ==
  /\ gateIn.decided
  /\ gateIn.statuses # <<>>
  /\ \A i \in DOMAIN gateIn.statuses : gateIn.statuses[i] = "unknown"
  /\ gate.allowed

(***************************************************************************)
(* World state gate: claim C20                                             *)
(***************************************************************************)

\* C20: can_execute() returns true iff the stored world state is ARMED_IDLE or
\* ARMED_ACTIVE, false for DISARMED, FROZEN and ENDED, and it never changes
\* the stored state.
C20_CanExecute ==
  [][(out'.op = "can_execute" /\ out' # out) =>
       /\ out'.ok <=> snap.state \in {"ARMED_IDLE", "ARMED_ACTIVE"}
       /\ ~out'.ok <=> snap.state \in {"DISARMED", "FROZEN", "ENDED"}
       /\ out'.state = snap.state
       /\ snap' = snap
       /\ events' = events]_vars

\* can_execute() has answered true in ARMED_IDLE.
C20_Witness ==
  /\ out.op = "can_execute"
  /\ out.ok
  /\ out.state = "ARMED_IDLE"
  /\ snap.state = "ARMED_IDLE"

====
